---------------------------- MODULE Spec2Model ----------------------------
(***************************************************************************)
(* A model of laundrevity/anno: the strict-mode tool-schema builders of    *)
(* src/main.py (pydantic model based) and src/tool.py (signature based).   *)
(*                                                                         *)
(* Python values are tagged tuples, the tag first:                         *)
(*   <<"none">>  None           <<"bool", b>>  a bool                      *)
(*   <<"str", s>>   a str held as one TLA+ string (keys, type tokens)      *)
(*   <<"text", cs>> a str held as its sequence of characters               *)
(*   <<"list", xs>> a list      <<"dict", kv>> a dict, kv its items        *)
(* A dict keeps its items as a sequence of <<key, value>> pairs in         *)
(* insertion order, as Python's dict does.  Text the code slices, strips   *)
(* or matches is a sequence of one-character strings.                      *)
(***************************************************************************)
EXTENDS Integers, Sequences, FiniteSets, TLC

VARIABLES
    job,               \* which entry point this run exercises
    pc,                \* position inside that entry point
    func_name,         \* func.__name__ (main.py:123, tool.py:106)
    short_desc,        \* main.py:113
    long_desc,         \* main.py:114
    func_description,  \* main.py:115-120
    raw_schema,        \* main.py:76, mutated in place by lines 82-83
    declared,          \* raw_schema as generated, before any pass (history)
    pruned,            \* raw_schema as it stood after line 82 (history)
    tool_attr,         \* wrapper.tool (main.py:132) / func._tool (tool.py:162)
    first_pass,        \* the tree after the first normalisation (history)
    docstring,         \* tool.py:15 argument / func.__doc__
    lines,             \* tool.py:25
    idx,               \* position of the for loop of tool.py:33 / tool.py:121
    description_lines, \* tool.py:27
    param_descriptions,\* tool.py:28, an insertion-ordered dict
    in_params_section, \* tool.py:31
    parsed,            \* the pair _parse_docstring returned
    params,            \* inspect.signature(func).parameters with the hints
    properties,        \* tool.py:118
    required,          \* tool.py:119
    py_type,           \* argument of _python_type_to_json_schema
    json_type          \* its result

vars == <<job, pc, func_name, short_desc, long_desc, func_description,
          raw_schema, declared, pruned, tool_attr, first_pass, docstring,
          lines, idx, description_lines, param_descriptions,
          in_params_section, parsed, params, properties, required,
          py_type, json_type>>

(***************************************************************************)
(* Bounds of the model.                                                    *)
(***************************************************************************)
MaxDepth == 2
MaxLines == 4
MaxParams == 2
MaxUnion == 2

(***************************************************************************)
(* Python values.                                                          *)
(***************************************************************************)
None == <<"none">>
Bool(b) == <<"bool", b>>
Str(s) == <<"str", s>>
Text(cs) == <<"text", cs>>
List(xs) == <<"list", xs>>
Dict(kv) == <<"dict", kv>>

IsDict(x) == x[1] = "dict"
IsList(x) == x[1] = "list"

Keys(d) == [i \in 1..Len(d[2]) |-> d[2][i][1]]
KeySet(d) == {d[2][i][1] : i \in 1..Len(d[2])}
Has(d, key) == key \in KeySet(d)
Get(d, key) == d[2][CHOOSE i \in 1..Len(d[2]) : d[2][i][1] = key][2]
GetOr(d, key, dflt) == IF Has(d, key) THEN Get(d, key) ELSE dflt
\* d[key] = v: an existing key keeps its place, a new one goes last
Put(d, key, v) ==
    IF Has(d, key)
    THEN Dict([i \in 1..Len(d[2]) |->
                 IF d[2][i][1] = key THEN <<key, v>> ELSE d[2][i]])
    ELSE Dict(Append(d[2], <<key, v>>))
Pop(d, key) == Dict(SelectSeq(d[2], LAMBDA e : e[1] # key))
Elems(xs) == {xs[i] : i \in 1..Len(xs)}


(***************************************************************************)
(* Text: str.strip() and friends on sequences of characters.               *)
(***************************************************************************)
Whitespace == {" ", "\t", "\n"}
\* the number of leading characters of cs that are in S
LeadCount(cs, S) ==
    IF \A i \in 1..Len(cs) : cs[i] \in S
    THEN Len(cs)
    ELSE (CHOOSE i \in 1..Len(cs) :
             cs[i] \notin S /\ \A j \in 1..(i - 1) : cs[j] \in S) - 1
TrailCount(cs, S) ==
    IF \A i \in 1..Len(cs) : cs[i] \in S
    THEN Len(cs)
    ELSE Len(cs) - (CHOOSE i \in 1..Len(cs) :
             cs[i] \notin S /\ \A j \in (i + 1)..Len(cs) : cs[j] \in S)
Drop(cs, n) == SubSeq(cs, n + 1, Len(cs))
\* str.strip()
Strip(cs) ==
    IF \A i \in 1..Len(cs) : cs[i] \in Whitespace
    THEN <<>>
    ELSE SubSeq(cs, LeadCount(cs, Whitespace) + 1,
                Len(cs) - TrailCount(cs, Whitespace))
StartsWith(cs, prefix) ==
    Len(cs) >= Len(prefix) /\ SubSeq(cs, 1, Len(prefix)) = prefix

(***************************************************************************)
(* src/main.py: the strict-mode normaliser.                                *)
(***************************************************************************)
DisallowedKeys == <<"default", "title", "examples", "format", "description">>

RECURSIVE PopEach(_, _)
PopEach(schema, keys) ==
    IF keys = <<>> THEN schema
    ELSE PopEach(IF Has(schema, Head(keys)) THEN Pop(schema, Head(keys))
                 ELSE schema,
                 Tail(keys))

\* main.py:23-28 with "format" forgotten in the list of keys
pop_disallowed_no_format(schema) ==
    PopEach(schema, <<"default", "title", "examples", "description">>)

\* main.py:23-28: the keys popped from one dict
pop_disallowed(schema) == PopEach(schema, DisallowedKeys)

RECURSIVE prune_disallowed_keys(_)
prune_disallowed_keys(schema) ==
    IF IsDict(schema)
    THEN LET popped == pop_disallowed(schema)
         IN  Dict([i \in 1..Len(popped[2]) |->
                     <<popped[2][i][1], prune_disallowed_keys(popped[2][i][2])>>])
    ELSE IF IsList(schema)
    THEN List([i \in 1..Len(schema[2]) |-> prune_disallowed_keys(schema[2][i])])
    ELSE schema

\* main.py:50-52 without the membership test of line 51
RECURSIVE append_props_unchecked(_, _)
append_props_unchecked(req, prop_names) ==
    IF prop_names = <<>> THEN req
    ELSE append_props_unchecked(Append(req, Str(Head(prop_names))),
                                Tail(prop_names))

\* main.py:50-52: every property name not yet in required is appended
RECURSIVE append_missing_rec(_, _)
append_missing_rec(req, prop_names) ==
    IF prop_names = <<>> THEN req
    ELSE append_missing_rec(
             IF Str(Head(prop_names)) \notin Elems(req)
             THEN Append(req, Str(Head(prop_names)))
             ELSE req,
             Tail(prop_names))

append_missing(req, prop_names) == append_missing_rec(req, prop_names)

\* main.py:45-52: what force_strict_mode does to one dict
strict_node(schema) ==
    IF GetOr(schema, "type", None) = Str("object")
    THEN LET closed == Put(schema, "additionalProperties", Bool(FALSE))
             props == GetOr(closed, "properties", Dict(<<>>))
             withreq == IF Has(closed, "required") THEN closed
                        ELSE Put(closed, "required", List(<<>>))
             req == Get(withreq, "required")
         IN  Put(withreq, "required",
                 List(append_missing(req[2], Keys(props))))
    ELSE schema

RECURSIVE force_strict_mode(_)
force_strict_mode(schema) ==
    IF IsDict(schema)
    THEN LET node == strict_node(schema)
         IN  Dict([i \in 1..Len(node[2]) |->
                     <<node[2][i][1], force_strict_mode(node[2][i][2])>>])
    ELSE IF IsList(schema)
    THEN List([i \in 1..Len(schema[2]) |-> force_strict_mode(schema[2][i])])
    ELSE schema

\* main.py:86-95
build_strict_openai_schema(name, description, schema) ==
    Dict(<< <<"type", Str("function")>>,
            <<"function",
              Dict(<< <<"name", Text(name)>>,
                      <<"description", Text(description)>>,
                      <<"strict", Bool(TRUE)>>,
                      <<"parameters", schema>> >>)>> >>)

Parameters(descriptor) == Get(Get(descriptor, "function"), "parameters")
Description(descriptor) == Get(Get(descriptor, "function"), "description")[2]

\* every dict of a tree, reached through dict values and list items
RECURSIVE Dicts(_)
Dicts(x) ==
    IF IsDict(x)
    THEN {x} \cup UNION {Dicts(x[2][i][2]) : i \in 1..Len(x[2])}
    ELSE IF IsList(x)
    THEN UNION {Dicts(x[2][i]) : i \in 1..Len(x[2])}
    ELSE {}

IsObject(d) == GetOr(d, "type", None) = Str("object")

\* <<path, property names>> of every object node of a tree
RECURSIVE ObjectProps(_, _)
ObjectProps(x, path) ==
    IF IsDict(x)
    THEN (IF IsObject(x)
          THEN {<<path, KeySet(GetOr(x, "properties", Dict(<<>>)))>>}
          ELSE {})
         \cup UNION {ObjectProps(x[2][i][2], Append(path, <<"key", x[2][i][1]>>))
                     : i \in 1..Len(x[2])}
    ELSE IF IsList(x)
    THEN UNION {ObjectProps(x[2][i], Append(path, <<"item", i>>))
                : i \in 1..Len(x[2])}
    ELSE {}

(***************************************************************************)
(* The raw trees param_model.model_json_schema() hands to the normaliser   *)
(* (main.py:76): pydantic's output for models whose fields are named "a"   *)
(* or "title", nested through properties, items and anyOf lists.           *)
(***************************************************************************)
PropNames == {"a", "title"}

LeafPlain == Dict(<< <<"type", Str("string")>> >>)
\* a field with a default, a description, examples and a format
LeafRich ==
    Dict(<< <<"default", None>>, <<"description", Str("d")>>,
            <<"examples", List(<<Str("e")>>)>>, <<"format", Str("date")>>,
            <<"title", Str("T")>>, <<"type", Str("string")>> >>)
\* Dict[str, Any]
LeafOpen == Dict(<< <<"additionalProperties", Bool(TRUE)>>,
                    <<"type", Str("object")>> >>)
Leaves == {LeafPlain, LeafRich, LeafOpen}

\* a BaseModel: pydantic leaves "required" out when no field is required
Obj(props, req) ==
    Dict(<< <<"properties", Dict(props)>> >>
         \o (IF req = <<>> THEN <<>>
             ELSE << <<"required", List([i \in 1..Len(req) |-> Str(req[i])])>> >>)
         \o << <<"title", Str("T")>>, <<"type", Str("object")>> >>)
Arr(item) ==
    Dict(<< <<"items", item>>, <<"title", Str("T")>>, <<"type", Str("array")>> >>)
\* Optional[...] = None
AnyOf(branch) ==
    Dict(<< <<"anyOf", List(<<branch, Dict(<< <<"type", Str("null")>> >>)>>)>>,
            <<"default", None>>, <<"title", Str("T")>> >>)

\* the models with a field holding c: alone, or followed by a second field
ObjectsOver(c) ==
    {Obj(<< <<n, c>> >>, r) : n \in PropNames, r \in {<<>>}} \cup
    {Obj(<< <<n, c>> >>, <<n>>) : n \in PropNames} \cup
    UNION {{Obj(<< <<ns[1], c>>, <<ns[2], LeafRich>> >>, r)
              : r \in {<<ns[1]>>, ns}}
           : ns \in {pair \in PropNames \X PropNames : pair[1] # pair[2]}}

RECURSIVE Schemas(_)
Schemas(depth) ==
    IF depth = 0 THEN Leaves
    ELSE Leaves \cup
         UNION {ObjectsOver(c) \cup {Arr(c), AnyOf(c)} : c \in Schemas(depth - 1)}

RawSchemas == UNION {ObjectsOver(c) : c \in Schemas(MaxDepth - 1)}

(***************************************************************************)
(* src/main.py: the decorator's description (lines 111-120).               *)
(***************************************************************************)
FuncNames == {<<"f">>, <<"g">>}
\* what docstring_parser reports as short_description / long_description
ShortDescriptions == {None, Text(<<"S">>), Text(<<" ", "S", "\n">>)}
LongDescriptions == {None, Text(<<"L">>), Text(<<" ">>)}

OrEmpty(x) == IF x = None THEN <<>> ELSE x[2]
NoDescription ==
    <<" ", "(", "n", "o", " ", "d", "e", "s", "c", "r", "i", "p", "t", "i",
      "o", "n", ")">>

\* main.py:115-120
describe(name, short, long) ==
    LET joined == IF short # <<>> /\ long # <<>>
                  THEN short \o <<"\n", "\n">> \o long
                  ELSE IF short # <<>> THEN short ELSE long
    IN  IF joined = <<>> THEN name \o NoDescription ELSE joined

(***************************************************************************)
(* src/tool.py: _parse_docstring.                                          *)
(***************************************************************************)
ParamTag == <<":", "p", "a", "r", "a", "m">>
\* \w, for the characters the model's texts are made of
WordChars == {"a", "b", "c", "d", "e", "f", "g", "h", "i", "j", "k", "l", "m",
              "n", "o", "p", "q", "r", "s", "t", "u", "v", "w", "x", "y", "z",
              "D", "X", "S", "L", "_", "0", "1"}

\* re.match(r":param\s+(\w+)\s*:\s*(.*)", line), tool.py:39
MatchParam(line) ==
    LET rest1 == Drop(line, Len(ParamTag))
        rest2 == Drop(rest1, LeadCount(rest1, Whitespace))
        nlen == LeadCount(rest2, WordChars)
        rest3 == Drop(rest2, nlen)
        rest4 == Drop(rest3, LeadCount(rest3, Whitespace))
        rest5 == Drop(rest4, 1)
    IN  IF /\ StartsWith(line, ParamTag)
           /\ LeadCount(rest1, Whitespace) >= 1
           /\ nlen >= 1
           /\ rest4 # <<>>
           /\ rest4[1] = ":"
        THEN [matched |-> TRUE, name |-> SubSeq(rest2, 1, nlen),
              desc |-> Drop(rest5, LeadCount(rest5, Whitespace))]
        ELSE [matched |-> FALSE, name |-> <<>>, desc |-> <<>>]

\* str.splitlines(), for "\n" line breaks
RECURSIVE SplitLines(_)
SplitLines(cs) ==
    IF cs = <<>> THEN <<>>
    ELSE LET n == IF "\n" \in Elems(cs)
                  THEN (CHOOSE i \in 1..Len(cs) :
                           cs[i] = "\n" /\ \A j \in 1..(i - 1) : cs[j] # "\n") - 1
                  ELSE Len(cs)
         IN  <<SubSeq(cs, 1, n)>> \o SplitLines(Drop(cs, n + 1))

\* sep.join(parts)
RECURSIVE Join(_, _)
Join(parts, sep) ==
    IF parts = <<>> THEN <<>>
    ELSE IF Len(parts) = 1 THEN parts[1]
    ELSE parts[1] \o sep \o Join(Tail(parts), sep)

\* tool.py:25
doc_lines(doc) ==
    LET split == SplitLines(Strip(doc))
    IN  [i \in 1..Len(split) |-> Strip(split[i])]

\* tool.py:51: list(param_descriptions.keys())[-1]
last_param(pd) == Keys(pd)[Len(pd[2])]

\* tool.py:34-52 with a :param line that does not match kept as description
parse_line_keep_malformed(st, line) ==
    IF StartsWith(line, ParamTag) /\ MatchParam(line).matched
    THEN [st EXCEPT !.in_params_section = TRUE,
                    !.param_descriptions =
                        Put(@, MatchParam(line).name, MatchParam(line).desc)]
    ELSE IF ~st.in_params_section
    THEN [st EXCEPT !.description_lines = Append(@, line)]
    ELSE IF st.param_descriptions[2] # <<>>
    THEN [st EXCEPT !.param_descriptions =
              Put(@, last_param(@), Get(@, last_param(@)) \o <<" ">> \o line)]
    ELSE st

\* tool.py:34-52: the body of the loop over the lines
parse_line(st, line) ==
    IF StartsWith(line, ParamTag)
    THEN LET match == MatchParam(line)
         IN  [st EXCEPT !.in_params_section = TRUE,
                        !.param_descriptions =
                            IF match.matched
                            THEN Put(@, match.name, match.desc)
                            ELSE @]
    ELSE IF ~st.in_params_section
    THEN [st EXCEPT !.description_lines = Append(@, line)]
    ELSE IF st.param_descriptions[2] # <<>>
    THEN [st EXCEPT !.param_descriptions =
              Put(@, last_param(@), Get(@, last_param(@)) \o <<" ">> \o line)]
    ELSE st

ParseStart == [description_lines |-> <<>>, param_descriptions |-> Dict(<<>>),
               in_params_section |-> FALSE]

RECURSIVE ParseLines(_, _)
ParseLines(st, ls) ==
    IF ls = <<>> THEN st ELSE ParseLines(parse_line(st, Head(ls)), Tail(ls))

\* tool.py:15-56; the pair <<top_description, param_descriptions>>
_parse_docstring(doc) ==
    IF doc = <<>> THEN <<<<>>, Dict(<<>>)>>
    ELSE LET st == ParseLines(ParseStart, doc_lines(doc))
         IN  <<Join(st.description_lines, <<" ">>), st.param_descriptions>>

(***************************************************************************)
(* src/tool.py: _python_type_to_json_schema.                               *)
(* An annotation is <<"class", name>>, <<"generic", origin>> (list[...],   *)
(* dict[...]) or <<"union", spelling, members>>; the spelling is "typing"  *)
(* for typing.Optional[T] / typing.Union[...] and "pep604" for T | None.   *)
(***************************************************************************)
Class(name) == <<"class", name>>
Generic(origin) == <<"generic", origin>>
Union(spelling, members) == <<"union", spelling, members>>
NoneType == Class("NoneType")

\* tool.py:8-13
python_type_to_json_type ==
    ("str" :> "string") @@ ("int" :> "integer") @@ ("float" :> "number")
    @@ ("bool" :> "boolean")

\* every order a list(set(...)) of these tokens can come out in
Orderings(S) ==
    {p \in [1..Cardinality(S) -> S] :
        \A i, j \in 1..Cardinality(S) : i # j => p[i] # p[j]}

\* tool.py:67: str(py_type) starts with "typing.Union", or py_type.__origin__
\* is typing.Union.  A types.UnionType (T | None) prints as "T | None" and
\* has no __origin__ attribute.
is_union(ann) == ann[1] = "union" /\ ann[2] = "typing"

RECURSIVE _python_type_to_json_schema(_)
\* tool.py:69-80: the lists list(set(types_list)) can be
union_result(members) ==
    LET subs == UNION {_python_type_to_json_schema(members[i])
                       : i \in 1..Len(members)}
        types_list == UNION {IF IsList(sub) THEN Elems(sub[2]) ELSE {sub}
                             : sub \in subs}
    IN  {List(p) : p \in Orderings(types_list)}

\* tool.py:59-97; the set of values the call can return
_python_type_to_json_schema(ann) ==
    IF is_union(ann) THEN union_result(ann[3])
    ELSE IF ann = NoneType THEN {Str("null")}
    ELSE IF ann = Generic("list") THEN {Str("array")}
    ELSE IF ann = Generic("dict") THEN {Str("object")}
    ELSE IF ann[1] = "class" /\ ann[2] \in DOMAIN python_type_to_json_type
    THEN {Str(python_type_to_json_type[ann[2]])}
    ELSE {Str("string")}

SingleTypes == {Class("str"), Class("int"), Class("float"), Class("bool"),
                Class("bytes"), Generic("list"), Generic("dict")}
\* the unions typing builds: two or more distinct members, none a union
Unions ==
    UNION {{Union(sp, m) : sp \in {"typing", "pep604"},
                           m \in {q \in [1..n -> SingleTypes \cup {NoneType}] :
                                     \A i, j \in 1..n : i # j => q[i] # q[j]}}
           : n \in 2..MaxUnion}
Annotations == SingleTypes \cup {NoneType} \cup Unions

(***************************************************************************)
(* src/tool.py: the decorator.                                             *)
(***************************************************************************)
SigNames == {"a", "b", "title"}
\* a parameter name as the characters a docstring spells it with
Chars == [a |-> <<"a">>, b |-> <<"b">>, title |-> <<"t", "i", "t", "l", "e">>]
SigHints == {None, Class("int"), Union("typing", <<Class("int"), NoneType>>)}
Params == [name : SigNames, hint : SigHints, has_default : BOOLEAN]
Signatures ==
    UNION {{sig \in [1..n -> Params] :
               \A i, j \in 1..n : i # j => sig[i].name # sig[j].name}
           : n \in 0..MaxParams}

\* tool.py:154 filled from the list of line 119 (the parameters without a
\* default) instead of from the keys of properties
parameters_required_no_default(props, req) ==
    [i \in 1..Len(req) |-> Str(req[i])]

\* tool.py:154: list(properties.keys())
parameters_required(props, req) ==
    [i \in 1..Len(props[2]) |-> Str(Keys(props)[i])]

\* tool.py:130-134
property_schema(jt, desc_for_param) ==
    IF desc_for_param # <<>>
    THEN Dict(<< <<"type", jt>>, <<"description", Text(desc_for_param)>> >>)
    ELSE Dict(<< <<"type", jt>> >>)

\* tool.py:146-159
tool_schema(name, top_description, props, req) ==
    Dict(<< <<"type", Str("function")>>,
            <<"function",
              Dict(<< <<"name", Text(name)>>,
                      <<"description", Text(top_description)>>,
                      <<"parameters",
                        Dict(<< <<"type", Str("object")>>,
                                <<"properties", props>>,
                                <<"required", List(parameters_required(props, req))>>,
                                <<"additionalProperties", Bool(FALSE)>> >>)>>,
                      <<"strict", Bool(TRUE)>> >>)>> >>)

(***************************************************************************)
(* The documentation texts.                                                *)
(***************************************************************************)
LineSummary == <<"D", "o", ".">>
LineBlank == <<>>
LineA == <<":", "p", "a", "r", "a", "m", " ", "a", ":", " ", "x">>
LineB == <<":", "p", "a", "r", "a", "m", " ", "b", ":", " ", "y">>
LineMalformed == <<":", "p", "a", "r", "a", "m", " ", "a">>
LineIndented == <<" ", "m", "o">>
LineChoices == {LineSummary, LineBlank, LineA, LineB, LineMalformed, LineIndented}
LineTitle == <<":", "p", "a", "r", "a", "m", " ", "t", "i", "t", "l", "e", ":",
               " ", "t">>

Docstrings ==
    {None} \cup
    UNION {{Text(Join(ls, <<"\n">>)) : ls \in [1..n -> LineChoices]}
           : n \in 1..MaxLines}
ToolDocstrings ==
    {None, Text(LineSummary),
     Text(Join(<<LineSummary, LineBlank, LineA, LineTitle>>, <<"\n">>))}

(***************************************************************************)
(* The state machine.  A run exercises one entry point on one input:       *)
(*   "model"       main.py's @tool(param_model) on a callable              *)
(*   "signature"   tool.py's @tool on a callable                           *)
(*   "docstring"   tool.py's _parse_docstring on a documentation text      *)
(*   "annotation"  tool.py's _python_type_to_json_schema on an annotation  *)
(***************************************************************************)
modelVars == <<short_desc, long_desc, func_description, raw_schema, declared,
               pruned, first_pass>>
parseVars == <<lines, description_lines, param_descriptions, in_params_section>>
sigVars == <<params, properties, required>>
typeVars == <<py_type, json_type>>

Blank ==
    /\ short_desc = <<>> /\ long_desc = <<>> /\ func_description = <<>>
    /\ raw_schema = None /\ declared = None /\ pruned = None
    /\ tool_attr = None /\ first_pass = None
    /\ lines = <<>> /\ idx = 0 /\ description_lines = <<>>
    /\ param_descriptions = Dict(<<>>) /\ in_params_section = FALSE
    /\ parsed = None /\ properties = Dict(<<>>) /\ required = <<>>
    /\ json_type = None

Init ==
    /\ Blank
    /\ \/ /\ job = "model" /\ pc = "decorate"
          /\ func_name \in FuncNames
          /\ docstring = None /\ params = <<>> /\ py_type = None
       \/ /\ job = "signature" /\ pc = "parse"
          /\ func_name \in FuncNames
          /\ docstring \in ToolDocstrings
          /\ params \in Signatures
          /\ py_type = None
       \/ /\ job = "docstring" /\ pc = "split"
          /\ func_name = <<>>
          /\ docstring \in Docstrings
          /\ params = <<>> /\ py_type = None
       \/ /\ job = "annotation" /\ pc = "map"
          /\ func_name = <<>> /\ docstring = None /\ params = <<>>
          /\ py_type \in Annotations

---------------------------------------------------------------------------
\* main.py:111-120: the description, from what docstring_parser found
Decorate ==
    /\ job = "model" /\ pc = "decorate"
    /\ \E short \in ShortDescriptions, long \in LongDescriptions :
          /\ short_desc' = Strip(OrEmpty(short))
          /\ long_desc' = Strip(OrEmpty(long))
          /\ func_description' =
                 describe(func_name, Strip(OrEmpty(short)), Strip(OrEmpty(long)))
    /\ pc' = "generate"
    /\ UNCHANGED <<job, func_name, raw_schema, declared, pruned, tool_attr,
                   first_pass, docstring, idx, parsed>>
    /\ UNCHANGED <<parseVars, sigVars, typeVars>>

\* main.py:76: pydantic generates the raw schema
GenerateSchema ==
    /\ job = "model" /\ pc = "generate"
    /\ \E raw \in RawSchemas : raw_schema' = raw /\ declared' = raw
    /\ pc' = "prune"
    /\ UNCHANGED <<job, func_name, short_desc, long_desc, func_description,
                   pruned, tool_attr, first_pass, docstring, idx, parsed>>
    /\ UNCHANGED <<parseVars, sigVars, typeVars>>

\* main.py:82
Prune ==
    /\ job = "model" /\ pc = "prune"
    /\ raw_schema' = prune_disallowed_keys(raw_schema)
    /\ pruned' = raw_schema'
    /\ pc' = "strict"
    /\ UNCHANGED <<job, func_name, short_desc, long_desc, func_description,
                   declared, tool_attr, first_pass, docstring, idx, parsed>>
    /\ UNCHANGED <<parseVars, sigVars, typeVars>>

\* main.py:83
ForceStrict ==
    /\ job = "model" /\ pc = "strict"
    /\ raw_schema' = force_strict_mode(raw_schema)
    /\ pc' = "attach"
    /\ UNCHANGED <<job, func_name, short_desc, long_desc, func_description,
                   declared, pruned, tool_attr, first_pass, docstring, idx,
                   parsed>>
    /\ UNCHANGED <<parseVars, sigVars, typeVars>>

\* main.py:86-95 and 132: the descriptor is built and attached
Attach ==
    /\ job = "model" /\ pc = "attach"
    /\ tool_attr' = build_strict_openai_schema(func_name, func_description,
                                               raw_schema)
    /\ first_pass' = raw_schema
    /\ pc' = "done"
    /\ UNCHANGED <<job, func_name, short_desc, long_desc, func_description,
                   raw_schema, declared, pruned, docstring, idx, parsed>>
    /\ UNCHANGED <<parseVars, sigVars, typeVars>>

\* main.py:82-83 run once more on the tree the descriptor holds
Renormalize ==
    /\ job = "model" /\ pc = "done"
    /\ raw_schema' = force_strict_mode(prune_disallowed_keys(raw_schema))
    /\ tool_attr' = build_strict_openai_schema(func_name, func_description,
                                               raw_schema')
    /\ pc' = "renormalized"
    /\ UNCHANGED <<job, func_name, short_desc, long_desc, func_description,
                   declared, pruned, first_pass, docstring, idx, parsed>>
    /\ UNCHANGED <<parseVars, sigVars, typeVars>>

---------------------------------------------------------------------------
\* tool.py:21-31
SplitDocstring ==
    /\ job = "docstring" /\ pc = "split"
    /\ IF OrEmpty(docstring) = <<>>
       THEN /\ parsed' = <<<<>>, Dict(<<>>)>>
            /\ pc' = "done"
            /\ UNCHANGED <<lines, idx>>
       ELSE /\ lines' = doc_lines(OrEmpty(docstring))
            /\ idx' = 1
            /\ pc' = "loop"
            /\ UNCHANGED parsed
    /\ UNCHANGED <<job, func_name, tool_attr, docstring, description_lines,
                   param_descriptions, in_params_section>>
    /\ UNCHANGED <<modelVars, sigVars, typeVars>>

\* tool.py:33-52: one turn of the loop
ParseLine ==
    /\ job = "docstring" /\ pc = "loop" /\ idx <= Len(lines)
    /\ LET st == parse_line([description_lines |-> description_lines,
                             param_descriptions |-> param_descriptions,
                             in_params_section |-> in_params_section],
                            lines[idx])
       IN  /\ description_lines' = st.description_lines
           /\ param_descriptions' = st.param_descriptions
           /\ in_params_section' = st.in_params_section
    /\ idx' = idx + 1
    /\ UNCHANGED <<job, pc, func_name, tool_attr, docstring, lines, parsed>>
    /\ UNCHANGED <<modelVars, sigVars, typeVars>>

\* tool.py:55-56
ReturnParsed ==
    /\ job = "docstring" /\ pc = "loop" /\ idx > Len(lines)
    /\ parsed' = <<Join(description_lines, <<" ">>), param_descriptions>>
    /\ pc' = "done"
    /\ UNCHANGED <<job, func_name, tool_attr, docstring, idx>>
    /\ UNCHANGED <<modelVars, parseVars, sigVars, typeVars>>

---------------------------------------------------------------------------
\* tool.py:105-119
ReadCallable ==
    /\ job = "signature" /\ pc = "parse"
    /\ parsed' = _parse_docstring(OrEmpty(docstring))
    /\ properties' = Dict(<<>>)
    /\ required' = <<>>
    /\ idx' = 1
    /\ pc' = "params"
    /\ UNCHANGED <<job, func_name, tool_attr, docstring, params>>
    /\ UNCHANGED <<modelVars, parseVars, typeVars>>

\* tool.py:121-140: one turn of the loop over the parameters
AddParam ==
    /\ job = "signature" /\ pc = "params" /\ idx <= Len(params)
    /\ LET param == params[idx]
           hint == IF param.hint = None THEN Class("str") ELSE param.hint
           desc_for_param == GetOr(parsed[2], Chars[param.name], <<>>)
       IN  /\ \E jt \in _python_type_to_json_schema(hint) :
                  properties' = Put(properties, param.name,
                                    property_schema(jt, desc_for_param))
           /\ required' = IF param.has_default THEN required
                          ELSE Append(required, param.name)
    /\ idx' = idx + 1
    /\ UNCHANGED <<job, pc, func_name, tool_attr, docstring, parsed, params>>
    /\ UNCHANGED <<modelVars, parseVars, typeVars>>

\* tool.py:146-162
AttachTool ==
    /\ job = "signature" /\ pc = "params" /\ idx > Len(params)
    /\ tool_attr' = tool_schema(func_name, parsed[1], properties, required)
    /\ pc' = "done"
    /\ UNCHANGED <<job, func_name, docstring, idx, parsed>>
    /\ UNCHANGED <<modelVars, parseVars, sigVars, typeVars>>

---------------------------------------------------------------------------
\* tool.py:59-97
MapType ==
    /\ job = "annotation" /\ pc = "map"
    /\ json_type' \in _python_type_to_json_schema(py_type)
    /\ pc' = "done"
    /\ UNCHANGED <<job, func_name, tool_attr, docstring, idx, parsed, py_type>>
    /\ UNCHANGED <<modelVars, parseVars, sigVars>>

Next ==
    \/ Decorate \/ GenerateSchema \/ Prune \/ ForceStrict \/ Attach
    \/ Renormalize
    \/ SplitDocstring \/ ParseLine \/ ReturnParsed
    \/ ReadCallable \/ AddParam \/ AttachTool
    \/ MapType

Spec == Init /\ [][Next]_vars

(***************************************************************************)
(* Properties.                                                             *)
(***************************************************************************)
Normalized == job = "model" /\ pc \in {"attach", "done", "renormalized"}
Built == job \in {"model", "signature"} /\ pc \in {"done", "renormalized"}
MetadataKeys == {"default", "title", "examples", "format"}

\* the dicts in schema position: every dict of the tree except a
\* "properties" mapping itself, whose keys are property names
RECURSIVE SchemaNodes(_)
SchemaNodes(x) ==
    IF IsDict(x)
    THEN {x} \cup
         UNION {IF x[2][i][1] = "properties" /\ IsDict(x[2][i][2])
                THEN UNION {SchemaNodes(x[2][i][2][2][k][2])
                            : k \in 1..Len(x[2][i][2][2])}
                ELSE SchemaNodes(x[2][i][2])
                : i \in 1..Len(x[2])}
    ELSE IF IsList(x)
    THEN UNION {SchemaNodes(x[2][i]) : i \in 1..Len(x[2])}
    ELSE {}

\* C1: after prune_disallowed_keys and force_strict_mode every object node
\* of the tree has additionalProperties == false and a required list that
\* holds, as a set, exactly the keys of its properties.
C1_EveryObjectStrict ==
    Normalized =>
        \A d \in Dicts(raw_schema) :
            IsObject(d) =>
                /\ GetOr(d, "additionalProperties", None) = Bool(FALSE)
                /\ Has(d, "required")
                /\ Elems(Get(d, "required")[2])
                     = {Str(k) : k \in KeySet(GetOr(d, "properties", Dict(<<>>)))}

\* C2: normalising the normalised tree once more leaves it as it was.
C2_NormalizeIdempotent ==
    (job = "model" /\ pc = "renormalized") => raw_schema = first_pass

\* C2 witness: a renormalised tree whose first pass had names to add to a
\* partly filled required list, below the root.
C2_Witness ==
    /\ job = "model" /\ pc = "renormalized"
    /\ \E d \in Dicts(declared) :
          /\ IsObject(d) /\ d # declared
          /\ Has(d, "required") /\ Has(d, "properties")
          /\ Len(Get(d, "required")[2]) < Len(Get(d, "properties")[2])
    /\ first_pass # pruned

\* C3 as stated: no dict at any depth of a descriptor's parameters has a key
\* named default, title, examples or format.
C3_NoMetadataKeyInAnyDict ==
    Built => \A d \in Dicts(Parameters(tool_attr)) :
                 KeySet(d) \cap MetadataKeys = {}

\* C3 amended: no dict in schema position of a descriptor's parameters (any
\* dict other than a properties mapping) has a key named default, title,
\* examples or format, for either entry point.
C3_NoMetadataKeyInSchemaNodes ==
    Built => \A d \in SchemaNodes(Parameters(tool_attr)) :
                 KeySet(d) \cap MetadataKeys = {}

\* C3 witness: a descriptor built from a model whose raw tree carried a
\* format key on a branch of an anyOf list and a title on a nested dict.
C3_Witness ==
    /\ job = "model" /\ pc = "done"
    /\ \E d \in Dicts(declared) :
          /\ Has(d, "anyOf")
          /\ \E b \in Dicts(Get(d, "anyOf")) : Has(b, "format")
    /\ Dicts(Parameters(tool_attr)) # {}

C5_DescriptionNeverEmpty ==
    Built =>
        /\ Description(tool_attr) # <<>>
        /\ job = "model" =>
              Description(tool_attr) =
                  IF short_desc # <<>> /\ long_desc # <<>>
                  THEN short_desc \o <<"\n", "\n">> \o long_desc
                  ELSE IF short_desc # <<>> THEN short_desc
                  ELSE IF long_desc # <<>> THEN long_desc
                  ELSE func_name \o NoDescription
        /\ (job = "signature" /\ docstring = None) =>
              Description(tool_attr) = func_name \o NoDescription

\* C6: for a text made of a summary line, a blank line and one
\* ":param <name>: <desc>" line per parameter, _parse_docstring returns the
\* summary line itself and the mapping {name: desc}.
C6_SummaryAndParams ==
    (job = "docstring" /\ pc = "done") =>
        \A tags \in {<<LineA>>, <<LineB>>, <<LineA, LineB>>, <<LineB, LineA>>} :
            docstring = Text(Join(<<LineSummary, LineBlank>> \o tags, <<"\n">>))
            => parsed =
                 <<LineSummary,
                   Dict([i \in 1..Len(tags) |->
                           <<MatchParam(tags[i]).name, MatchParam(tags[i]).desc>>])>>

IsOptional(ann) ==
    /\ ann[1] = "union" /\ Len(ann[3]) = 2
    /\ NoneType \in Elems(ann[3])
OptionalOf(ann) == CHOOSE t \in Elems(ann[3]) : t # NoneType

\* C7: an optional-of-T annotation maps to exactly two distinct tokens, the
\* token of T and "null", whichever member is declared first.
C7_OptionalTwoTokens ==
    (job = "annotation" /\ pc = "done" /\ IsOptional(py_type)) =>
        /\ IsList(json_type)
        /\ Len(json_type[2]) = 2
        /\ Elems(json_type[2]) =
              _python_type_to_json_schema(OptionalOf(py_type)) \cup {Str("null")}

\* the latest line before line i that the pattern of tool.py:39 captured
\* (0 when there is none)
LastCaptured(ls, i) ==
    IF \E j \in 1..(i - 1) : MatchParam(ls[j]).matched
    THEN CHOOSE j \in 1..(i - 1) :
             /\ MatchParam(ls[j]).matched
             /\ \A k \in (j + 1)..(i - 1) : ~MatchParam(ls[k]).matched
    ELSE 0

\* C8: a line that starts no tag and follows a captured ":param" line is
\* appended, after one space, to the description of the parameter named by
\* the latest captured tag line before it, and to no other description.
C8_ContinuationJoinsLatestTag ==
    [][(/\ job = "docstring" /\ pc = "loop" /\ idx <= Len(lines)
        /\ ~StartsWith(lines[idx], ParamTag)
        /\ LastCaptured(lines, idx) # 0
        /\ idx' = idx + 1)
       => LET name == MatchParam(lines[LastCaptured(lines, idx)]).name
          IN  param_descriptions' =
                  Put(param_descriptions, name,
                      Get(param_descriptions, name) \o <<" ">> \o lines[idx])]_vars

Malformed(line) == StartsWith(line, ParamTag) /\ ~MatchParam(line).matched

\* C9: _parse_docstring returns a pair for every text: a ":param" line that
\* does not match the pattern adds no key, changes no description and adds
\* nothing to the summary; a line that starts no tag, met in the parameter
\* section while the mapping is empty, is dropped; an empty text gives
\* ("", {}).
C9_MalformedAndEarlyLinesDropped ==
    [][/\ (/\ job = "docstring" /\ pc = "loop" /\ idx <= Len(lines)
           /\ idx' = idx + 1
           /\ \/ Malformed(lines[idx])
              \/ /\ ~StartsWith(lines[idx], ParamTag)
                 /\ in_params_section
                 /\ param_descriptions = Dict(<<>>))
          => /\ param_descriptions' = param_descriptions
             /\ description_lines' = description_lines
       /\ (job = "docstring" /\ pc = "loop" /\ pc' = "done")
          => parsed' = <<Join(description_lines, <<" ">>), param_descriptions>>
       /\ (job = "docstring" /\ pc = "split" /\ OrEmpty(docstring) = <<>>)
          => (pc' = "done" => parsed' = <<<<>>, Dict(<<>>)>>)]_vars

\* C9 witness: a parsed text with a malformed tag line, then a line that
\* starts no tag while the mapping is empty, then a captured tag line.
C9_Witness ==
    /\ job = "docstring" /\ pc = "done"
    /\ docstring = Text(Join(<<LineSummary, LineMalformed, LineIndented, LineA>>,
                             <<"\n">>))
    /\ parsed = <<LineSummary, Dict(<< <<<<"a">>, <<"x">>>> >>)>>

\* C10: pruning never removes a declared property: every object node keeps
\* the key set of its properties mapping through prune_disallowed_keys.
C10_PruneKeepsProperties ==
    (job = "model" /\ pc \in {"strict", "attach", "done", "renormalized"}) =>
        \A e \in ObjectProps(declared, <<>>) : e \in ObjectProps(pruned, <<>>)
============================================================================
